---------------------------- MODULE Spec2Model ----------------------------
(***************************************************************************)
(* Mailing-App (django/mailinglist): the entity store of MailingList,      *)
(* Subscriber, Message and SubscriberMessage rows (models.py), the views   *)
(* that create, confirm, update and delete them (views.py), and the three  *)
(* Celery tasks (tasks.py) with the broker queue between the two.          *)
(*                                                                         *)
(* Primary keys are uuid4 values: a fresh value per row, never reused and  *)
(* never shared between tables.  An id is modelled as <<table, n>> with n  *)
(* the ordinal of the row among the rows ever inserted in its table.       *)
(*                                                                         *)
(* mailinglist/emails.py is imported by models.py and tasks.py but is not  *)
(* part of the sources at hand; what it does to a SubscriberMessage is     *)
(* taken from the design document, section 4.4 (the definitions whose      *)
(* names start with emails_).                                              *)
(***************************************************************************)
EXTENDS Integers, FiniteSets, Sequences, Bags, TLC

\* ---------------------------------------------------------------- bounds
\* rows ever inserted per table, repeated deliveries and submitted send jobs,
\* per specification
SubscriptionLists == 2
SubscriptionSubs == 2
SubscriptionRedeliver == 1

StoreLists == 2
StoreSubs == 2
StoreMsgs == 1
StoreRecs == 1

FanoutLists == 2
FanoutSubs == 2
FanoutMsgs == 1
FanoutRecs == 2
FanoutRedeliver == 1

DeliveryRecs == 2
DeliveryRedeliver == 1
DeliverySends == 1

MessageLists == 2
MessageMsgs == 2
MessageRedeliver == 1

WorkersPool == 2
WorkersRedeliver == 1
WorkersSends == 1

OwnerUsers == 2
OwnerLists == 1
OwnerSubs == 1
OwnerMsgs == 1

BuildLists == 1
BuildSubs == 1
BuildMsgs == 1
BuildRedeliver == 1

Emails == {"a@x", "b@x"}

\* ------------------------------------------------------------- constants
\* default=None of the DateTimeFields; a set timestamp is a positive number
NULL == 0
\* the retry bound of the delivery job (design document 4.4, 4.5)
MaxAttempts == 3

VARIABLES
    mailinglists,        \* set of MailingList ids
    subscribers,         \* Subscriber id -> [email, confirmed, mailing_list]
    messages,            \* Message id -> [mailing_list, started, finished]
    subscriber_messages, \* SubscriberMessage id -> row
    queue,               \* bag of jobs the broker holds
    created,             \* rows ever inserted per table (next uuid ordinal)
    redelivered,         \* number of deliveries the broker repeated
    sendCalls,           \* number of send jobs submitted to the broker
    lastOp,              \* the last operation and how it ended
    limits,              \* how far this specification lets the counters go
    owner,               \* MailingList id -> the user who owns it
    sending              \* worker -> the send job it holds and the row it loaded

vars == <<mailinglists, subscribers, messages, subscriber_messages, queue,
          created, redelivered, sendCalls, lastOp, limits, owner, sending>>

store == <<mailinglists, subscribers, messages, subscriber_messages>>

\* ------------------------------------------------------------------- ids
uuid4(table, n) == <<table, n>>

Job(task, arg) == [task |-> task, arg |-> arg]

One(job) == SetToBag({job})

Op(op, arg, err, pre) == [op |-> op, err |-> err, pre |-> pre]

Restrict(f, S) == [x \in S |-> f[x]]

\* ------------------------------------------------------------ models.py
\* SubscriberManager.confirmed_subscribers_for_mailing_list
confirmed_subscribers_for_mailing_list(mailing_list) ==
    {s \in DOMAIN subscribers :
        /\ subscribers[s].confirmed
        /\ subscribers[s].mailing_list = mailing_list}

\* the attributes a SubscriberManager instance answers to (besides those of
\* models.Manager, none of which create_from_message uses)
SubscriberManagerMethods == {"confirmed_subscribers_for_mailing_list"}

\* Subscriber.Meta.unique_together = ['email', 'mailing_list']
unique_together_none(email, mailing_list) == TRUE
unique_together(email, mailing_list) ==
    \A s \in DOMAIN subscribers :
        ~(subscribers[s].email = email /\ subscribers[s].mailing_list = mailing_list)

\* Subscriber.save: "if is_new and not self.confirmed"
Subscriber_save_always(is_new, confirmed) == TRUE
Subscriber_save_unconfirmed(is_new, confirmed) == ~confirmed
Subscriber_save_sends(is_new, confirmed) == is_new /\ ~confirmed

\* Subscriber.send_confirmation_email
send_confirmation_email(id) == Job("send_confirmation_email_to_subscriber", id)

\* Message.save: "if is_new"
Message_save_always(is_new) == TRUE
Message_save_sends(is_new) == is_new

\* SubscriberMessage.send: queues send_confirmation_email_to_subscriber with
\* the SubscriberMessage's own id
SubscriberMessage_send(id) == Job("send_confirmation_email_to_subscriber", id)

\* on_delete=CASCADE of SubscriberMessage.message and .subscriber: the rows
\* that go with the given Subscribers and Messages
cascade_message_only(subs, msgs) ==
    {r \in DOMAIN subscriber_messages : subscriber_messages[r].message \in msgs}
cascade(subs, msgs) ==
    {r \in DOMAIN subscriber_messages :
        \/ subscriber_messages[r].subscriber \in subs
        \/ subscriber_messages[r].message \in msgs}

\* a SubscriberMessage row as inserted: sent and last_attempt default to None
\* (attempts and outcome: the count and the answer of the send attempts so far)
NewSubscriberMessage_sent_now(message, subscriber) ==
    [message |-> message, subscriber |-> subscriber,
     sent |-> 1, last_attempt |-> NULL,
     attempts |-> 0, outcome |-> "none"]
NewSubscriberMessage(message, subscriber) ==
    [message |-> message, subscriber |-> subscriber,
     sent |-> NULL, last_attempt |-> NULL,
     attempts |-> 0, outcome |-> "none"]


\* SubscriberMessageManager.create_from_message asks the SubscriberManager
\* for this attribute
create_from_message_callee == "send_confirmation_email"

\* SubscriberMessageManager.create_from_message: the attribute lookup on
\* Subscriber.objects raises AttributeError unless the manager defines it;
\* otherwise one Manager.create() per subscriber of the returned queryset
create_from_message_all(message) ==
    [err |-> "none",
     subs |-> {s \in DOMAIN subscribers :
                  subscribers[s].mailing_list = messages[message].mailing_list}]
create_from_message(message) ==
    IF create_from_message_callee \in SubscriberManagerMethods
    THEN [err |-> "none",
          subs |-> confirmed_subscribers_for_mailing_list(messages[message].mailing_list)]
    ELSE [err |-> "AttributeError", subs |-> {}]

\* the rows Manager.create() inserts for the subscribers subs of a message,
\* numbered from the n-th SubscriberMessage on (queryset order is arbitrary)
CreatedRows(message, subs, n) ==
    LET k == Cardinality(subs)
        ord == CHOOSE f \in [1..k -> subs] : \A i, j \in 1..k : f[i] = f[j] => i = j
    IN [id \in {uuid4("SubscriberMessage", n + i) : i \in 1..k} |->
            NewSubscriberMessage(message, ord[id[2] - n])]

\* ------------------------------------------------------------- emails.py
\* derived status of a SubscriberMessage (design document 4.4)
status(row) ==
    IF row.sent # NULL THEN "sent"
    ELSE IF row.attempts = MaxAttempts THEN "failed"
    ELSE "pending"

Outcomes == {"success", "transientError", "permanentError"}

\* emails.send_subscriber_message(subscriber_message) with the mail sender
\* answering outcome: the row afterwards and whether the job is queued again.
\* A timestamp is the ordinal of the attempt that wrote it.
emails_send_marks_sent(row, outcome) ==
    LET t == row.attempts + 1
    IN [row |-> [row EXCEPT !.sent = t, !.last_attempt = t,
                            !.attempts = t, !.outcome = outcome],
        requeue |-> FALSE]
emails_send_subscriber_message(row, outcome) ==
    LET t == row.attempts + 1
    IN IF status(row) # "pending" THEN [row |-> row, requeue |-> FALSE]
       ELSE IF outcome = "success"
       THEN [row |-> [row EXCEPT !.sent = t, !.last_attempt = t,
                                 !.attempts = t, !.outcome = outcome],
             requeue |-> FALSE]
       ELSE IF outcome = "transientError"
       THEN [row |-> [row EXCEPT !.last_attempt = t, !.attempts = t,
                                 !.outcome = outcome],
             requeue |-> t < MaxAttempts]
       ELSE [row |-> [row EXCEPT !.last_attempt = t, !.attempts = MaxAttempts,
                                 !.outcome = outcome],
             requeue |-> FALSE]

\* ------------------------------------------------------------------ Init
Start(bounds) ==
    /\ limits = bounds
    /\ mailinglists = {}
    /\ subscribers = <<>>
    /\ messages = <<>>
    /\ subscriber_messages = <<>>
    /\ queue = EmptyBag
    /\ created = [MailingList |-> 0, Subscriber |-> 0, Message |-> 0,
                  SubscriberMessage |-> 0]
    /\ redelivered = 0
    /\ sendCalls = 0
    /\ lastOp = Op("init", uuid4("none", 0), "none", FALSE)
    /\ owner = <<>>
    /\ sending = <<>>

\* the users that send requests (request.user), the owner of a list among them
Users == 1..limits.users

\* the worker processes of the pool
Workers == 1..limits.workers

\* every id ever handed out for a table
Ever(table) == {uuid4(table, n) : n \in 1..created[table]}

\* .delay(): the job goes to the broker
Delay(jobs) == queue' = queue (+) jobs

NoDelay == UNCHANGED queue

\* an operation that ends in an error response and writes nothing
Fails(op, arg, err) ==
    /\ lastOp' = Op(op, arg, err, FALSE)
    /\ UNCHANGED <<store, queue, created, redelivered, sendCalls, limits, owner, sending>>

\* ------------------------------------------------------------- views.py
\* CreateMailingListView / MailingListCreateListView
CreateMailingListView ==
    /\ created.MailingList < limits.MailingList
    /\ LET id == uuid4("MailingList", created.MailingList + 1)
       IN /\ mailinglists' = mailinglists \cup {id}
          /\ \E user \in Users : owner' = owner @@ (id :> user)
          /\ created' = [created EXCEPT !.MailingList = @ + 1]
          /\ UNCHANGED <<limits, sending>> /\ lastOp' = Op("create_list", id, "none", FALSE)
    /\ UNCHANGED <<subscribers, messages, subscriber_messages, queue, redelivered, sendCalls>>

\* DeleteMailingListView / MailingListRetrieveUpdateDestroyView: the delete
\* follows the CASCADE foreign keys of Subscriber, Message, SubscriberMessage
DeleteMailingListView(pk) ==
    /\ pk \in mailinglists
    /\ LET subs == {s \in DOMAIN subscribers : subscribers[s].mailing_list = pk}
           msgs == {m \in DOMAIN messages : messages[m].mailing_list = pk}
       IN /\ mailinglists' = mailinglists \ {pk}
          /\ subscribers' = Restrict(subscribers, DOMAIN subscribers \ subs)
          /\ messages' = Restrict(messages, DOMAIN messages \ msgs)
          /\ subscriber_messages' =
                 Restrict(subscriber_messages,
                          DOMAIN subscriber_messages \ cascade(subs, msgs))
    /\ owner' = Restrict(owner, DOMAIN owner \ {pk})
    /\ UNCHANGED <<limits, sending>> /\ lastOp' = Op("delete_list", pk, "none", FALSE)
    /\ UNCHANGED <<queue, created, redelivered, sendCalls>>

\* SubscriberListCreateView with SubscriberSerializer (email, confirmed and
\* mailing_list writable), ending in Subscriber.save of a new instance
SubscriberListCreateView(email, confirmed, mailing_list_pk) ==
    IF mailing_list_pk \notin mailinglists
    THEN Fails("create_subscriber", mailing_list_pk, "NotFound")
    ELSE IF ~unique_together(email, mailing_list_pk)
    THEN Fails("create_subscriber", mailing_list_pk, "DuplicateSubscription")
    ELSE /\ created.Subscriber < limits.Subscriber
         /\ LET id == uuid4("Subscriber", created.Subscriber + 1)
            IN /\ subscribers' = subscribers @@
                      (id :> [email |-> email, confirmed |-> confirmed,
                              mailing_list |-> mailing_list_pk])
               /\ IF Subscriber_save_sends(TRUE, confirmed)
                  THEN Delay(One(send_confirmation_email(id)))
                  ELSE NoDelay
               /\ UNCHANGED <<limits, owner, sending>> /\ lastOp' = Op("create_subscriber", id, "none", FALSE)
         /\ created' = [created EXCEPT !.Subscriber = @ + 1]
         /\ UNCHANGED <<mailinglists, messages, subscriber_messages, redelivered, sendCalls>>

\* the same request while the broker cannot be reached: super().save() has
\* written the row (autocommit) when .delay() raises kombu's OperationalError,
\* which neither Subscriber.save nor send_confirmation_email nor the view
\* catches
SubscriberListCreateView_QueueUnavailable(email, confirmed, mailing_list_pk) ==
    IF mailing_list_pk \notin mailinglists
    THEN Fails("create_subscriber", mailing_list_pk, "NotFound")
    ELSE IF ~unique_together(email, mailing_list_pk)
    THEN Fails("create_subscriber", mailing_list_pk, "DuplicateSubscription")
    ELSE /\ created.Subscriber < limits.Subscriber
         /\ LET id == uuid4("Subscriber", created.Subscriber + 1)
            IN /\ subscribers' = subscribers @@
                      (id :> [email |-> email, confirmed |-> confirmed,
                              mailing_list |-> mailing_list_pk])
               /\ NoDelay
               /\ lastOp' = Op("create_subscriber", id,
                               IF Subscriber_save_sends(TRUE, confirmed)
                               THEN "OperationalError" ELSE "none",
                               FALSE)
         /\ created' = [created EXCEPT !.Subscriber = @ + 1]
         /\ UNCHANGED <<mailinglists, messages, subscriber_messages, redelivered,
                        sendCalls, limits, owner, sending>>

\* the value ConfirmSubscriptionView.get_object assigns to subscriber.confirmed
confirm_toggles(old) == ~old
confirm_value(old) == TRUE

\* Subscriber.save of a row loaded from the database (an UPDATE of confirmed)
UpdateConfirmed(op, pk, value) ==
    /\ subscribers' = [subscribers EXCEPT ![pk].confirmed = value]
    /\ IF Subscriber_save_sends(FALSE, value)
       THEN Delay(One(send_confirmation_email(pk)))
       ELSE NoDelay
    /\ UNCHANGED <<limits, owner, sending>> /\ lastOp' = Op(op, pk, "none", subscribers[pk].confirmed)
    /\ UNCHANGED <<mailinglists, messages, subscriber_messages, created, redelivered, sendCalls>>

\* ConfirmSubscriptionView.get_object
ConfirmSubscriptionView(pk) ==
    IF pk \notin DOMAIN subscribers
    THEN Fails("confirm", pk, "NotFound")
    ELSE UpdateConfirmed("confirm", pk, confirm_value(subscribers[pk].confirmed))

\* SubscriberRetrieveUpdateDestroyView, PUT/PATCH through
\* ReadOnlyEmailSubscriberSerializer: confirmed is the one writable field
SubscriberUpdateView(pk, confirmed) ==
    IF pk \notin DOMAIN subscribers
    THEN Fails("api_update", pk, "NotFound")
    ELSE UpdateConfirmed("api_update", pk, confirmed)

\* UnsubscribeView (and the DELETE of SubscriberRetrieveUpdateDestroyView)
UnsubscribeView(pk) ==
    IF pk \notin DOMAIN subscribers
    THEN Fails("unsubscribe", pk, "NotFound")
    ELSE /\ subscribers' = Restrict(subscribers, DOMAIN subscribers \ {pk})
         /\ subscriber_messages' =
                Restrict(subscriber_messages,
                         DOMAIN subscriber_messages \ cascade({pk}, {}))
         /\ UNCHANGED <<limits, owner, sending>> /\ lastOp' = Op("unsubscribe", pk, "none", FALSE)
         /\ UNCHANGED <<mailinglists, messages, queue, created, redelivered, sendCalls>>

\* CreateMessageView.form_valid with the save action, ending in Message.save
\* of a new instance: started and finished default to None
CreateMessageView(mailinglist_pk) ==
    IF mailinglist_pk \notin mailinglists
    THEN Fails("create_message", mailinglist_pk, "NotFound")
    ELSE /\ created.Message < limits.Message
         /\ LET id == uuid4("Message", created.Message + 1)
            IN /\ messages' = messages @@
                      (id :> [mailing_list |-> mailinglist_pk,
                              started |-> NULL, finished |-> NULL])
               /\ IF Message_save_sends(TRUE)
                  THEN Delay(One(Job("build_subscriber_messages_for_message", id)))
                  ELSE NoDelay
               /\ UNCHANGED <<limits, owner, sending>> /\ lastOp' = Op("create_message", id, "none", FALSE)
         /\ created' = [created EXCEPT !.Message = @ + 1]
         /\ UNCHANGED <<mailinglists, subscribers, subscriber_messages, redelivered, sendCalls>>

\* Message.save of a row loaded from the database (an UPDATE; no view does
\* it, a Message has no edit form)
MessageSave(pk) ==
    /\ pk \in DOMAIN messages
    /\ IF Message_save_sends(FALSE)
       THEN Delay(One(Job("build_subscriber_messages_for_message", pk)))
       ELSE NoDelay
    /\ lastOp' = Op("save_message", pk, "none", FALSE)
    /\ UNCHANGED <<store, created, redelivered, sendCalls, limits, owner, sending>>

\* MailingList.user_can_use_mailing_list
user_can_use_any_mailing_list(user, mailing_list) == TRUE
user_can_use_mailing_list(user, mailing_list) == user = owner[mailing_list]

\* the value of POST['action'] CreateMessageView.form_valid looks at
SAVE_ACTION == "save"

PREVIEW_ACTION == "preview"

FormActions == {SAVE_ACTION, PREVIEW_ACTION, "none"}

\* CreateMessageView.form_valid: whether the request goes on to
\* super().form_valid(form), which saves the form's Message
form_valid_saves_always(action) == TRUE
form_valid_saves(action) == action = SAVE_ACTION

\* CreateMessageView, POST of a valid form by a logged-in user: get_initial
\* calls get_mailing_list (404, PermissionDenied) before the form is looked
\* at; form_valid renders the preview, saves, or returns None (which Django
\* answers with a ValueError)
CreateMessageView_post(user, mailinglist_pk, action) ==
    IF mailinglist_pk \notin mailinglists
    THEN Fails("create_message", mailinglist_pk, "NotFound")
    ELSE IF ~user_can_use_mailing_list(user, mailinglist_pk)
    THEN Fails("create_message", mailinglist_pk, "PermissionDenied")
    ELSE IF form_valid_saves(action)
    THEN CreateMessageView(mailinglist_pk)
    ELSE IF action = PREVIEW_ACTION
    THEN Fails("preview_message", mailinglist_pk, "none")
    ELSE Fails("create_message", mailinglist_pk, "ValueError")

\* --------------------------------------------------------- permissions.py
\* CanUseMailingList.has_object_permission: isinstance() is the table of the
\* object, whose id stands for the loaded object
has_object_permission_default_true(user, obj) ==
    IF obj[1] = "Subscriber"
    THEN user_can_use_mailing_list(user, subscribers[obj].mailing_list)
    ELSE IF obj[1] = "MailingList"
    THEN user_can_use_mailing_list(user, obj)
    ELSE TRUE
has_object_permission(user, obj) ==
    IF obj[1] = "Subscriber"
    THEN user_can_use_mailing_list(user, subscribers[obj].mailing_list)
    ELSE IF obj[1] = "MailingList"
    THEN user_can_use_mailing_list(user, obj)
    ELSE FALSE

\* MailingListRetrieveUpdateDestroyView, DELETE: get_object runs
\* check_object_permissions on the MailingList
MailingListRetrieveUpdateDestroyView(user, pk) ==
    IF pk \notin mailinglists
    THEN Fails("api_delete_list", pk, "NotFound")
    ELSE IF ~has_object_permission(user, pk)
    THEN Fails("api_delete_list", pk, "PermissionDenied")
    ELSE DeleteMailingListView(pk)

\* SubscriberRetrieveUpdateDestroyView, PATCH of confirmed or DELETE:
\* get_object runs check_object_permissions on the Subscriber
SubscriberRetrieveUpdateDestroyView(user, pk, method, confirmed) ==
    IF pk \notin DOMAIN subscribers
    THEN Fails("api_subscriber", pk, "NotFound")
    ELSE IF ~has_object_permission(user, pk)
    THEN Fails("api_subscriber", pk, "PermissionDenied")
    ELSE IF method = "DELETE"
    THEN UnsubscribeView(pk)
    ELSE SubscriberUpdateView(pk, confirmed)

\* SubscriberMessage.objects.create(message=..., subscriber=...), the call
\* create_from_message makes per subscriber, ending in SubscriberMessage.save
\* of a new instance.  The table declares no uniqueness over its columns.
SubscriberMessageCreate(message, subscriber) ==
    /\ message \in DOMAIN messages
    /\ subscriber \in DOMAIN subscribers
    /\ created.SubscriberMessage < limits.SubscriberMessage
    /\ LET id == uuid4("SubscriberMessage", created.SubscriberMessage + 1)
       IN /\ subscriber_messages' = subscriber_messages @@
                 (id :> NewSubscriberMessage(message, subscriber))
          /\ Delay(One(SubscriberMessage_send(id)))
          /\ UNCHANGED <<limits, owner, sending>> /\ lastOp' = Op("create_subscriber_message", id, "none", FALSE)
    /\ created' = [created EXCEPT !.SubscriberMessage = @ + 1]
    /\ UNCHANGED <<mailinglists, subscribers, messages, redelivered, sendCalls>>

\* -------------------------------------------------------------- tasks.py
\* the broker hands a queued job to a worker; the delivery is acknowledged
\* (the job leaves the queue) or, at-least-once, repeated later
Take(job, task, ack) ==
    /\ job \in BagToSet(queue)
    /\ job.task = task
    /\ ack \/ redelivered < limits.redelivered
    /\ redelivered' = IF ack THEN redelivered ELSE redelivered + 1

Left(job, ack) == IF ack THEN queue (-) One(job) ELSE queue

\* send_confirmation_email_to_subscriber(subscriber_id): Subscriber.objects.get
\* raises DoesNotExist for an id that is no Subscriber's; the confirmation
\* e-mail itself leaves no trace in the store
send_confirmation_email_to_subscriber(job, ack) ==
    /\ Take(job, "send_confirmation_email_to_subscriber", ack)
    /\ queue' = Left(job, ack)
    /\ UNCHANGED <<limits, owner, sending>> /\ lastOp' = Op("task_confirmation", job.arg,
                    IF job.arg \in DOMAIN subscribers THEN "none" ELSE "DoesNotExist",
                    FALSE)
    /\ UNCHANGED <<store, created, sendCalls>>

\* build_subscriber_messages_for_message(message_id): Message.objects.get,
\* then SubscriberMessage.objects.create_from_message(message)
build_subscriber_messages_for_message(job, ack) ==
    /\ Take(job, "build_subscriber_messages_for_message", ack)
    /\ IF job.arg \notin DOMAIN messages
       THEN /\ UNCHANGED <<limits, owner, sending>> /\ lastOp' = Op("task_build", job.arg, "DoesNotExist", FALSE)
            /\ queue' = Left(job, ack)
            /\ UNCHANGED <<store, created, sendCalls>>
       ELSE LET res == create_from_message(job.arg)
                n == created.SubscriberMessage
                rows == CreatedRows(job.arg, res.subs, n)
                jobs == SetToBag({SubscriberMessage_send(id) : id \in DOMAIN rows})
            IN /\ n + Cardinality(res.subs) <= limits.SubscriberMessage
               /\ subscriber_messages' = subscriber_messages @@ rows
               /\ created' = [created EXCEPT
                                 !.SubscriberMessage = n + Cardinality(res.subs)]
               /\ queue' = Left(job, ack) (+) jobs
               /\ UNCHANGED <<limits, owner, sending>> /\ lastOp' = Op("task_build", job.arg, res.err, FALSE)
               /\ UNCHANGED <<mailinglists, subscribers, messages, sendCalls>>

\* send_subscriber_message.delay(subscriber_message_id) by a client of the
\* broker: no code of models.py or views.py submits this job
send_subscriber_message_delay(subscriber_message_id) ==
    /\ sendCalls < limits.sendCalls
    /\ subscriber_message_id \in Ever("SubscriberMessage")
    /\ sendCalls' = sendCalls + 1
    /\ Delay(One(Job("send_subscriber_message", subscriber_message_id)))
    /\ UNCHANGED <<limits, owner, sending>> /\ lastOp' = Op("delay_send", subscriber_message_id, "none", FALSE)
    /\ UNCHANGED <<store, created, redelivered>>

\* send_subscriber_message(subscriber_message_id): SubscriberMessage.objects.get,
\* then emails.send_subscriber_message(subscriber_message)
send_subscriber_message_autoretry(job, ack, outcome) ==
    /\ Take(job, "send_subscriber_message", ack)
    /\ IF job.arg \notin DOMAIN subscriber_messages
       THEN /\ UNCHANGED <<limits, owner, sending>>
            /\ lastOp' = Op("task_send", job.arg, "DoesNotExist", FALSE)
            /\ queue' = Left(job, ack) (+) One(job)
            /\ UNCHANGED store
       ELSE LET res == emails_send_subscriber_message(subscriber_messages[job.arg], outcome)
                again == IF res.row.sent = NULL THEN One(job) ELSE EmptyBag
            IN /\ subscriber_messages' =
                      [subscriber_messages EXCEPT ![job.arg] = res.row]
               /\ queue' = Left(job, ack) (+) again
               /\ UNCHANGED <<limits, owner, sending>>
               /\ lastOp' = Op("task_send", job.arg, "none", FALSE)
               /\ UNCHANGED <<mailinglists, subscribers, messages>>
    /\ UNCHANGED <<created, sendCalls>>
send_subscriber_message(job, ack, outcome) ==
    /\ Take(job, "send_subscriber_message", ack)
    /\ IF job.arg \notin DOMAIN subscriber_messages
       THEN /\ UNCHANGED <<limits, owner, sending>> /\ lastOp' = Op("task_send", job.arg, "DoesNotExist", FALSE)
            /\ queue' = Left(job, ack)
            /\ UNCHANGED store
       ELSE LET res == emails_send_subscriber_message(subscriber_messages[job.arg], outcome)
                again == IF res.requeue THEN One(job) ELSE EmptyBag
            IN /\ subscriber_messages' =
                      [subscriber_messages EXCEPT ![job.arg] = res.row]
               /\ queue' = Left(job, ack) (+) again
               /\ UNCHANGED <<limits, owner, sending>> /\ lastOp' = Op("task_send", job.arg, "none", FALSE)
               /\ UNCHANGED <<mailinglists, subscribers, messages>>
    /\ UNCHANGED <<created, sendCalls>>

\* send_subscriber_message as the two steps a pool of workers interleaves.
\* First the broker hands the job to an idle worker, which loads the row
\* (SubscriberMessage.objects.get) and enters emails.send_subscriber_message;
\* nothing is written to the row and nothing is asked of it on the way in.
send_subscriber_message_get(worker, job, ack) ==
    /\ worker \in Workers \ DOMAIN sending
    /\ Take(job, "send_subscriber_message", ack)
    /\ IF job.arg \notin DOMAIN subscriber_messages
       THEN /\ lastOp' = Op("task_send", job.arg, "DoesNotExist", FALSE)
            /\ UNCHANGED sending
       ELSE /\ lastOp' = Op("task_send_get", job.arg, "none", FALSE)
            /\ sending' = sending @@
                   (worker :> [id |-> job.arg, row |-> subscriber_messages[job.arg]])
    /\ queue' = Left(job, ack)
    /\ UNCHANGED <<store, created, sendCalls, limits, owner>>

\* Then the mail sender answers and the worker saves the row it loaded.
send_subscriber_message_send(worker, outcome) ==
    /\ worker \in DOMAIN sending
    /\ sending[worker].id \in DOMAIN subscriber_messages
    /\ LET id == sending[worker].id
           res == emails_send_subscriber_message(sending[worker].row, outcome)
           again == IF res.requeue
                    THEN One(Job("send_subscriber_message", id)) ELSE EmptyBag
       IN /\ subscriber_messages' = [subscriber_messages EXCEPT ![id] = res.row]
          /\ queue' = queue (+) again
          /\ lastOp' = Op("task_send", id, "none", FALSE)
    /\ sending' = Restrict(sending, DOMAIN sending \ {worker})
    /\ UNCHANGED <<mailinglists, subscribers, messages, created, redelivered,
                   sendCalls, limits, owner>>

\* ------------------------------------------------------------------ Next
ListViews ==
    \/ CreateMailingListView
    \/ \E pk \in mailinglists : DeleteMailingListView(pk)

SubscriberViews ==
    \/ \E email \in Emails, confirmed \in BOOLEAN, pk \in Ever("MailingList") :
           SubscriberListCreateView(email, confirmed, pk)
    \/ \E pk \in Ever("Subscriber") : ConfirmSubscriptionView(pk)
    \/ \E pk \in Ever("Subscriber"), confirmed \in BOOLEAN :
           SubscriberUpdateView(pk, confirmed)
    \/ \E pk \in Ever("Subscriber") : UnsubscribeView(pk)

MessageViews ==
    \E pk \in Ever("MailingList") : CreateMessageView(pk)

SubscriberMessageRows ==
    \E m \in DOMAIN messages, s \in DOMAIN subscribers :
        SubscriberMessageCreate(m, s)

ConfirmationWorker ==
    \E job \in BagToSet(queue), ack \in BOOLEAN :
        send_confirmation_email_to_subscriber(job, ack)

BuildWorker ==
    \E job \in BagToSet(queue), ack \in BOOLEAN :
        build_subscriber_messages_for_message(job, ack)

SendWorker ==
    \/ \E id \in Ever("SubscriberMessage") : send_subscriber_message_delay(id)
    \/ \E job \in BagToSet(queue), ack \in BOOLEAN, outcome \in Outcomes :
           send_subscriber_message(job, ack, outcome)

Limits(lists, subs, msgs, recs, redeliveries, sends) ==
    [MailingList |-> lists, Subscriber |-> subs, Message |-> msgs,
     SubscriberMessage |-> recs, redelivered |-> redeliveries, sendCalls |-> sends,
     users |-> 1, workers |-> 1]

\* the whole application
Init ==
    Start(Limits(FanoutLists, FanoutSubs, FanoutMsgs, FanoutRecs,
                 FanoutRedeliver, DeliverySends))

Next ==
    \/ ListViews
    \/ SubscriberViews
    \/ MessageViews
    \/ SubscriberMessageRows
    \/ ConfirmationWorker
    \/ BuildWorker
    \/ SendWorker

Spec == Init /\ [][Next]_vars

\* The specifications below take some of the disjuncts of Next, each with
\* its own limits, so each of their behaviours is a behaviour of the
\* application.

\* subscription and confirmation: lists, subscribers and the confirmation job
SubscriptionInit ==
    Start(Limits(SubscriptionLists, SubscriptionSubs, 0, 0, SubscriptionRedeliver, 0))

SubscriptionNext ==
    \/ ListViews
    \/ SubscriberViews
    \/ ConfirmationWorker

SubscriptionSpec == SubscriptionInit /\ [][SubscriptionNext]_vars

\* the entity store: every insert and every delete of the four tables
StoreInit ==
    Start(Limits(StoreLists, StoreSubs, StoreMsgs, StoreRecs, 0, 0))

StoreNext ==
    \/ ListViews
    \/ \E email \in Emails, pk \in mailinglists :
           SubscriberListCreateView(email, TRUE, pk)
    \/ \E pk \in DOMAIN subscribers : UnsubscribeView(pk)
    \/ \E pk \in mailinglists : CreateMessageView(pk)
    \/ SubscriberMessageRows

StoreSpec == StoreInit /\ [][StoreNext]_vars

\* fan-out: the store together with the build job
FanoutInit ==
    Start(Limits(FanoutLists, FanoutSubs, FanoutMsgs, FanoutRecs, FanoutRedeliver, 0))

FanoutNext ==
    \/ ListViews
    \/ SubscriberViews
    \/ MessageViews
    \/ SubscriberMessageRows
    \/ BuildWorker

FanoutSpec == FanoutInit /\ [][FanoutNext]_vars

\* delivery: the SubscriberMessage rows of one message to one subscriber and
\* the jobs that act on them
DeliveryInit ==
    Start(Limits(1, 1, 1, DeliveryRecs, DeliveryRedeliver, DeliverySends))

DeliveryNext ==
    \/ CreateMailingListView
    \/ \E email \in Emails, pk \in mailinglists :
           SubscriberListCreateView(email, TRUE, pk)
    \/ \E pk \in DOMAIN subscribers : UnsubscribeView(pk)
    \/ \E pk \in mailinglists : CreateMessageView(pk)
    \/ SubscriberMessageRows
    \/ ConfirmationWorker
    \/ BuildWorker
    \/ SendWorker

DeliverySpec == DeliveryInit /\ [][DeliveryNext]_vars

\* messages: the insert and the repeated save of a Message and the build job
MessageInit ==
    Start(Limits(MessageLists, 0, MessageMsgs, 0, MessageRedeliver, 0))

MessageNext ==
    \/ ListViews
    \/ MessageViews
    \/ \E pk \in DOMAIN messages : MessageSave(pk)
    \/ BuildWorker

MessageSpec == MessageInit /\ [][MessageNext]_vars

\* the build job with the data it reads: lists, subscribers and messages; no
\* SubscriberMessage is inserted but by the job
BuildInit ==
    Start(Limits(BuildLists, BuildSubs, BuildMsgs, BuildSubs, BuildRedeliver, 0))

BuildNext ==
    \/ ListViews
    \/ SubscriberViews
    \/ MessageViews
    \/ BuildWorker

BuildSpec == BuildInit /\ [][BuildNext]_vars

\* subscription while the broker comes and goes
BrokerNext ==
    \/ ListViews
    \/ \E email \in Emails, confirmed \in BOOLEAN, pk \in Ever("MailingList") :
           \/ SubscriberListCreateView(email, confirmed, pk)
           \/ SubscriberListCreateView_QueueUnavailable(email, confirmed, pk)
    \/ \E pk \in Ever("Subscriber") : ConfirmSubscriptionView(pk)
    \/ ConfirmationWorker

BrokerSpec == SubscriptionInit /\ [][BrokerNext]_vars

\* a pool of workers on the send jobs of one SubscriberMessage
WorkersInit ==
    Start([Limits(1, 1, 1, 1, WorkersRedeliver, WorkersSends)
               EXCEPT !.workers = WorkersPool])

WorkersNext ==
    \/ CreateMailingListView
    \/ \E email \in Emails, pk \in mailinglists :
           SubscriberListCreateView(email, TRUE, pk)
    \/ \E pk \in mailinglists : CreateMessageView(pk)
    \/ SubscriberMessageRows
    \/ \E id \in Ever("SubscriberMessage") : send_subscriber_message_delay(id)
    \/ \E worker \in Workers, job \in BagToSet(queue), ack \in BOOLEAN :
           send_subscriber_message_get(worker, job, ack)
    \/ \E worker \in Workers, outcome \in Outcomes :
           send_subscriber_message_send(worker, outcome)

WorkersSpec == WorkersInit /\ [][WorkersNext]_vars

\* several users: the requests that look at who owns a MailingList
OwnerInit ==
    Start([Limits(OwnerLists, OwnerSubs, OwnerMsgs, 0, 0, 0)
               EXCEPT !.users = OwnerUsers])

OwnerNext ==
    \/ CreateMailingListView
    \/ \E user \in Users, pk \in Ever("MailingList") :
           MailingListRetrieveUpdateDestroyView(user, pk)
    \/ \E email \in Emails, pk \in mailinglists :
           SubscriberListCreateView(email, TRUE, pk)
    \/ \E user \in Users, pk \in Ever("Subscriber"),
          method \in {"PATCH", "DELETE"}, confirmed \in BOOLEAN :
           SubscriberRetrieveUpdateDestroyView(user, pk, method, confirmed)
    \/ \E user \in Users, pk \in Ever("MailingList"), action \in FormActions :
           CreateMessageView_post(user, pk, action)

OwnerSpec == OwnerInit /\ [][OwnerNext]_vars

\* ---------------------------------------------------------------- claims
Confirmation(id) == Job("send_confirmation_email_to_subscriber", id)

BuildJob(id) == Job("build_subscriber_messages_for_message", id)

Kept == DOMAIN subscribers \cap DOMAIN subscribers'

Inserted == DOMAIN subscribers' \ DOMAIN subscribers

Taken(email, mailing_list) ==
    \E s \in DOMAIN subscribers :
        subscribers[s].email = email /\ subscribers[s].mailing_list = mailing_list

\* the run of the build job for a message that exists
BuildRuns(job) ==
    /\ job.arg \in DOMAIN messages
    /\ \E ack \in BOOLEAN : build_subscriber_messages_for_message(job, ack)

\* C1: a run of the build job for a Message inserts exactly one
\* SubscriberMessage per confirmed Subscriber of the Message's list, each for
\* that Message and a distinct Subscriber, and none for anyone else.
C1_BuildMakesOnePerConfirmed ==
    [][\A job \in BagToSet(queue) :
          BuildRuns(job) =>
              LET new == DOMAIN subscriber_messages' \ DOMAIN subscriber_messages
                  expected == confirmed_subscribers_for_mailing_list(
                                  messages[job.arg].mailing_list)
              IN /\ Cardinality(new) = Cardinality(expected)
                 /\ {subscriber_messages'[r].subscriber : r \in new} = expected
                 /\ \A r \in new : subscriber_messages'[r].message = job.arg]_vars

\* C2: at most one SubscriberMessage per (Message, Subscriber) pair.
C2_OneRowPerPair ==
    \A r1, r2 \in DOMAIN subscriber_messages :
        (/\ subscriber_messages[r1].message = subscriber_messages[r2].message
         /\ subscriber_messages[r1].subscriber = subscriber_messages[r2].subscriber)
        => r1 = r2

\* C3 as stated: every insert of a Subscriber queues exactly one confirmation
\* job with the Subscriber's id, whatever its fields.
C3_EveryInsertQueuesOne ==
    [][\A s \in Inserted : CopiesIn(Confirmation(s), queue') = 1]_vars

\* C3 as amended: the insert of a Subscriber queues exactly one confirmation
\* job with its id when it is inserted unconfirmed and none when it is
\* inserted confirmed; no later step queues another one for it.
C3_InsertQueuesOneIfUnconfirmed ==
    [][/\ \A s \in Inserted :
             CopiesIn(Confirmation(s), queue') =
                 IF subscribers'[s].confirmed THEN 0 ELSE 1
       /\ \A s \in Ever("Subscriber") :
             CopiesIn(Confirmation(s), queue') <= CopiesIn(Confirmation(s), queue)]_vars

C3_Witness ==
    /\ lastOp.op = "confirm"
    /\ lastOp.err = "none"
    /\ ~lastOp.pre
    /\ \E s \in DOMAIN subscribers :
          subscribers[s].confirmed /\ CopiesIn(Confirmation(s), queue) = 1

\* C4: no two Subscribers share (email, mailing_list), and creating one with
\* a pair that is taken ends in DuplicateSubscription (the IntegrityError of
\* unique_together), writes nothing and queues nothing.
C4_DuplicateRejected ==
    /\ [](\A s1, s2 \in DOMAIN subscribers :
             (/\ subscribers[s1].email = subscribers[s2].email
              /\ subscribers[s1].mailing_list = subscribers[s2].mailing_list)
             => s1 = s2)
    /\ [][lastOp'.op = "create_subscriber" =>
             \A email \in Emails, confirmed \in BOOLEAN, pk \in mailinglists :
                (Taken(email, pk) /\ SubscriberListCreateView(email, confirmed, pk))
                => /\ lastOp'.err = "DuplicateSubscription"
                   /\ UNCHANGED <<store, queue>>]_vars

C4_Witness ==
    /\ lastOp.op = "create_subscriber"
    /\ lastOp.err = "DuplicateSubscription"
    /\ Cardinality(DOMAIN subscribers) = 2

\* C5: the confirm action on a confirmed Subscriber raises nothing, changes
\* no row and queues no job.
C5_ReconfirmIsNoop ==
    [][\A pk \in DOMAIN subscribers :
          (subscribers[pk].confirmed /\ ConfirmSubscriptionView(pk))
          => /\ lastOp'.err = "none"
             /\ UNCHANGED <<store, queue>>]_vars

C5_Witness ==
    /\ lastOp.op = "confirm"
    /\ lastOp.err = "none"
    /\ lastOp.pre

\* C6 as stated: a Subscriber that is confirmed stays confirmed for as long
\* as it exists.
C6_ConfirmedIsTerminal ==
    [][\A s \in Kept : subscribers[s].confirmed => subscribers'[s].confirmed]_vars

\* C6 as amended: a confirmed Subscriber is set back to unconfirmed by no
\* operation other than the API update of the Subscriber, whose confirmed
\* field is writable.
C6_OnlyApiUpdateUnconfirms ==
    [][\A s \in Kept :
          (subscribers[s].confirmed /\ ~subscribers'[s].confirmed)
          => lastOp'.op = "api_update"]_vars

C6_Witness ==
    /\ lastOp.op = "api_update"
    /\ lastOp.pre
    /\ Cardinality(DOMAIN subscribers) = 1
    /\ \A s \in DOMAIN subscribers : ~subscribers[s].confirmed

\* C7: no Subscriber or Message refers to a MailingList that is gone and no
\* SubscriberMessage to a Subscriber or a Message that is gone.
C7_NoDanglingReference ==
    /\ \A s \in DOMAIN subscribers : subscribers[s].mailing_list \in mailinglists
    /\ \A m \in DOMAIN messages : messages[m].mailing_list \in mailinglists
    /\ \A r \in DOMAIN subscriber_messages :
          /\ subscriber_messages[r].message \in DOMAIN messages
          /\ subscriber_messages[r].subscriber \in DOMAIN subscribers

\* a list was deleted and took its Message's row for a Subscriber of the
\* other list with it
C7_Witness ==
    /\ lastOp.op = "delete_list"
    /\ created.SubscriberMessage = 1
    /\ DOMAIN subscriber_messages = {}
    /\ created.Subscriber >= 1
    /\ Cardinality(DOMAIN subscribers) = created.Subscriber

C9_NoJobLeftMeansTerminal ==
    queue = EmptyBag =>
        \A r \in DOMAIN subscriber_messages :
            status(subscriber_messages[r]) # "pending"

\* C10: the run of the build job for a Message sets the Message's started
\* timestamp.
C10_BuildSetsStarted ==
    [][\A job \in BagToSet(queue) :
          BuildRuns(job) => messages'[job.arg].started # NULL]_vars

\* C11: the insert of a Message queues exactly one build job with the
\* Message's id, and no later step (a repeated save of the Message among
\* them) queues another one for it.
C11_CreateQueuesOneBuild ==
    [][/\ \A m \in DOMAIN messages' \ DOMAIN messages :
             CopiesIn(BuildJob(m), queue') = 1
       /\ \A m \in Ever("Message") :
             CopiesIn(BuildJob(m), queue') <= CopiesIn(BuildJob(m), queue)]_vars

C11_Witness ==
    /\ lastOp.op = "save_message"
    /\ \E m \in DOMAIN messages : CopiesIn(BuildJob(m), queue) = 1

SendJob(id) == Job("send_subscriber_message", id)

\* C12: the insert of a SubscriberMessage queues exactly one
\* send_subscriber_message job with the row's id, and no
\* send_confirmation_email_to_subscriber job ever carries the id of a
\* SubscriberMessage.
C12_InsertQueuesSendJob ==
    [][\A r \in DOMAIN subscriber_messages' \ DOMAIN subscriber_messages :
          /\ CopiesIn(SendJob(r), queue') = 1
          /\ CopiesIn(Confirmation(r), queue') = 0]_vars

\* C13: the creation of an unconfirmed Subscriber during which the
\* confirmation job cannot be queued still inserts the row, unconfirmed, and
\* reports no error.
C13_EnqueueFailureNotSurfaced ==
    [][lastOp'.op = "create_subscriber" =>
          \A email \in Emails, pk \in mailinglists :
             (/\ unique_together(email, pk)
              /\ SubscriberListCreateView_QueueUnavailable(email, FALSE, pk))
             => /\ \E s \in Inserted : ~subscribers'[s].confirmed
                /\ lastOp'.err = "none"]_vars

C15_SendAfterUnsubscribeIsSkipped ==
    [][lastOp'.op = "task_send" =>
          \A job \in BagToSet(queue), ack \in BOOLEAN, outcome \in Outcomes :
             (/\ job.arg \notin DOMAIN subscriber_messages
              /\ send_subscriber_message(job, ack, outcome))
             => /\ lastOp'.err = "none"
                /\ CopiesIn(job, queue') <= CopiesIn(job, queue)]_vars

\* C16: no two workers are in the sending step for the same
\* SubscriberMessage at the same time.
C16_OneWorkerPerRecord ==
    \A w1, w2 \in DOMAIN sending :
        sending[w1].id = sending[w2].id => w1 = w2

C19_PreviewChangesNothing ==
    [][(lastOp'.op = "preview_message" \/ messages' # messages) =>
          \A user \in Users, pk \in Ever("MailingList"), action \in FormActions :
             CreateMessageView_post(user, pk, action)
             => /\ action = PREVIEW_ACTION => UNCHANGED <<store, queue>>
                /\ messages' # messages
                      => /\ action = SAVE_ACTION
                         /\ pk \in mailinglists
                         /\ owner[pk] = user]_vars

\* the owner of a list that has a Subscriber previewed a Message
C19_Witness ==
    /\ lastOp.op = "preview_message"
    /\ lastOp.err = "none"
    /\ DOMAIN subscribers # {}
    /\ DOMAIN messages = {}

\* C20: CanUseMailingList allows a user a MailingList exactly when the user
\* owns it, a Subscriber exactly when the user owns the Subscriber's
\* MailingList, and no object of another type; the API requests on a
\* MailingList or a Subscriber are refused exactly for the other users.
C20_OnlyOwnerHasPermission ==
    /\ [](\A user \in Users :
             /\ \A l \in mailinglists :
                   has_object_permission(user, l) <=> (owner[l] = user)
             /\ \A s \in DOMAIN subscribers :
                   has_object_permission(user, s)
                       <=> (owner[subscribers[s].mailing_list] = user)
             /\ \A o \in DOMAIN messages \cup DOMAIN subscriber_messages :
                   ~has_object_permission(user, o))
    /\ [][/\ lastOp'.op \in {"api_delete_list", "delete_list"} =>
                \A user \in Users, pk \in mailinglists :
                   MailingListRetrieveUpdateDestroyView(user, pk)
                   => (lastOp'.err = "PermissionDenied" <=> owner[pk] # user)
          /\ lastOp'.op = "api_subscriber" =>
                \A user \in Users, pk \in DOMAIN subscribers :
                   SubscriberRetrieveUpdateDestroyView(user, pk, "DELETE", FALSE)
                   => /\ lastOp'.err = "PermissionDenied"
                      /\ owner[subscribers[pk].mailing_list] # user
          /\ lastOp'.op \in {"api_update", "unsubscribe"} =>
                \A user \in Users, pk \in DOMAIN subscribers,
                   method \in {"PATCH", "DELETE"}, confirmed \in BOOLEAN :
                   SubscriberRetrieveUpdateDestroyView(user, pk, method, confirmed)
                   => owner[subscribers[pk].mailing_list] = user]_vars

\* a user was refused a Subscriber of somebody else's list while a Message
\* (an object of another type) exists
C20_Witness ==
    /\ lastOp.op = "api_subscriber"
    /\ lastOp.err = "PermissionDenied"
    /\ DOMAIN subscribers # {}
    /\ DOMAIN messages # {}

=============================================================================
